---- MODULE Spec2Model ----
(***************************************************************************)
(* A model of pymonetdb's DB-API cursor (pymonetdb/sql/cursors.py): the    *)
(* MAPI response decoder (__store_result), the sliding result window       *)
(* (nextset, scroll) and the fetch operations built on it.                 *)
(*                                                                         *)
(* The cursor object is the record `cursor`; every method is an operator   *)
(* from a cursor record to a call outcome [c, st, ret, sent], and one      *)
(* action per public method installs that outcome.  The connection and the *)
(* server behind it are the environment: `conn` holds the connection's     *)
(* reply size and the result sets the server keeps open.                   *)
(*                                                                         *)
(* Abstractions: a statement is identified by the response block the       *)
(* server returns for it (statements are non-empty strings); a protocol    *)
(* line is a record whose `kind` is the branch of the prefix dispatch it   *)
(* selects; a data row is the pair <<query id, logical index>>, its field  *)
(* count carried by the tuple line; scalar conversion (pythonize) and      *)
(* literal quoting (monetize) are external and not modelled.  The page     *)
(* size (arraysize) is the one the cursor is constructed with.             *)
(***************************************************************************)
EXTENDS Integers, Sequences, FiniteSets, TLC

\* ------------------------------------------------------------------ bounds
MaxRows  == 3   \* largest result set the server produces
MaxPage  == 2   \* largest page size (arraysize / replysize)
MaxMany  == 2   \* longest parameter sequence given to executemany

PageSizes == 1..MaxPage

\* ------------------------------------------------------------ Python lists
Min(a, b) == IF a < b THEN a ELSE b
Max(a, b) == IF a > b THEN a ELSE b

\* a slice bound as Python normalises it against a list of length n
SliceBound(i, n) == IF i < 0 THEN Max(i + n, 0) ELSE Min(i, n)

\* s[a:b]
Slice(s, a, b) ==
    LET lo == SliceBound(a, Len(s))
        hi == SliceBound(b, Len(s))
    IN  IF lo >= hi THEN <<>> ELSE SubSeq(s, lo + 1, hi)

\* s[a:]
SliceFrom(s, a) == Slice(s, a, Len(s))

\* s[i] is defined for -len <= i < len
IndexOk(s, i) == i < Len(s) /\ i >= 0 - Len(s)
Index(s, i) == IF i < 0 THEN s[Len(s) + i + 1] ELSE s[i + 1]

\* ----------------------------------------------------------- cursor record
NoDescription == [none |-> TRUE, cols |-> <<>>]
NoRowId == <<>>

\* Cursor.__init__
NewCursor(replysize) ==
    [ connection  |-> TRUE,          \* FALSE models connection = None
      arraysize   |-> replysize,
      rowcount    |-> -1,
      description |-> NoDescription,
      rownumber   |-> -1,
      executed    |-> FALSE,         \* __executed: None or the operation
      offset      |-> 0,
      rows        |-> <<>>,
      query_id    |-> -1,
      messages    |-> <<>>,
      lastrowid   |-> NoRowId ]

\* a call outcome: the cursor after the call, how the call ended, what it
\* returned and what it sent to the connection
Outcome(c, st, ret, sent) == [c |-> c, st |-> st, ret |-> ret, sent |-> sent]

RetNothing   == [k |-> "nothing", rows |-> <<>>, n |-> 0]
RetNone      == [k |-> "None",    rows |-> <<>>, n |-> 0]
RetRow(r)    == [k |-> "row",     rows |-> <<r>>, n |-> 0]
RetRows(rs)  == [k |-> "list",    rows |-> rs,   n |-> 0]
RetCount(n)  == [k |-> "count",   rows |-> <<>>, n |-> n]
RetBool(b)   == [k |-> "bool",    rows |-> <<>>, n |-> IF b THEN 1 ELSE 0]

\* an exception handler that raises without logging
ExceptionHandlerNoLog(c, cls, msg) == c

\* Cursor.__exception_handler: log the error, then raise it
ExceptionHandler(c, cls, msg) ==
    [c EXCEPT !.messages = Append(@, <<cls, msg>>)]

Raise(c, cls, msg, sent) ==
    Outcome(ExceptionHandler(c, cls, msg), cls, RetNothing, sent)

\* --------------------------------------------------------- protocol lines
BaseLine == [kind |-> "prompt", text |-> "", q |-> 0, n |-> 0, cols |-> 0, vals |-> <<>>]

Prompt        == BaseLine
InfoLine(t)   == [BaseLine EXCEPT !.kind = "info", !.text = t]
ErrorLine(t)  == [BaseLine EXCEPT !.kind = "error", !.text = t]
QTable(q, r, k) == [BaseLine EXCEPT !.kind = "qtable", !.q = q, !.n = r, !.cols = k]
HeaderLine(id, v) == [BaseLine EXCEPT !.kind = "header", !.text = id, !.vals = v]
TupleLine(q, i, nf) == [BaseLine EXCEPT !.kind = "tuple", !.q = q, !.n = i, !.cols = nf]
QBlock(q)     == [BaseLine EXCEPT !.kind = "qblock", !.q = q]
QSchema       == [BaseLine EXCEPT !.kind = "qschema"]
QUpdate(a, id) == [BaseLine EXCEPT !.kind = "qupdate", !.n = a, !.q = id]
QTrans        == [BaseLine EXCEPT !.kind = "qtrans"]
OtherLine     == [BaseLine EXCEPT !.kind = "other"]

\* The value of a one-element set.  A local variable of the code holds one
\* value, computed once: the model binds it as `x \in {e}` and takes the
\* result with Only.
Only(S) == CHOOSE x \in S : TRUE

\* the row a tuple line carries
RowOf(line) == <<line.q, line.n>>

\* ------------------------------------------------------- __store_result
\* the local column vectors of one __store_result call
NoLocals == [sized |-> FALSE, columns |-> 0, column_name |-> <<>>, type_ |-> <<>>]

NoneVector(k) == [j \in 1..k |-> "None"]

\* list(zip(column_name, type_, display_size, ...)): as long as the shortest
ZipDescription(loc) ==
    LET m == Min(Min(Len(loc.column_name), Len(loc.type_)), loc.columns)
    IN  [none |-> FALSE,
         cols |-> [j \in 1..m |-> <<loc.column_name[j], loc.type_[j]>>]]

\* a tuple parser that takes any number of fields
ParseTupleLenient(c, line) ==
    IF c.description.none THEN "TypeError" ELSE "ok"

\* Cursor.__parse_tuple: "ok" with the row, or the error it raises
ParseTupleStatus(c, line) ==
    IF c.description.none THEN "TypeError"            \* len(None)
    ELSE IF line.cols = Len(c.description.cols) THEN "ok"
    ELSE "InterfaceError"

\* the body of the loop over the lines of a block, for one line:
\* [c, loc, st] with st = "next" (go on), "ok" (return) or the error raised
StoreLine(c, loc, line) ==
    CASE line.kind = "info" ->
           [c |-> [c EXCEPT !.messages = Append(@, <<"Warning", line.text>>)],
            loc |-> loc, st |-> "next"]
      [] line.kind = "qtable" ->
           [c |-> [c EXCEPT !.query_id = line.q, !.rowcount = line.n,
                            !.rows = <<>>, !.offset = 0, !.lastrowid = NoRowId],
            loc |-> [sized |-> TRUE, columns |-> line.cols,
                     column_name |-> NoneVector(line.cols),
                     type_ |-> NoneVector(line.cols)],
            st |-> "next"]
      [] line.kind = "header" ->
           IF ~loc.sized
           THEN [c |-> c, loc |-> loc, st |-> "TypeError"]   \* zip over an int
           ELSE LET loc2 == CASE line.text = "name" -> [loc EXCEPT !.column_name = line.vals]
                              [] line.text = "type" -> [loc EXCEPT !.type_ = line.vals]
                              [] OTHER -> loc
                IN  [c |-> [c EXCEPT !.description = ZipDescription(loc2),
                                     !.offset = 0, !.lastrowid = NoRowId],
                     loc |-> loc2, st |-> "next"]
      [] line.kind = "tuple" ->
           LET ps == ParseTupleStatus(c, line)
           IN  IF ps = "ok"
               THEN [c |-> [c EXCEPT !.rows = Append(@, RowOf(line))],
                     loc |-> loc, st |-> "next"]
               ELSE IF ps = "InterfaceError"
               THEN [c |-> ExceptionHandler(c, "InterfaceError",
                                            "length of row doesn't match header"),
                     loc |-> loc, st |-> "InterfaceError"]
               ELSE [c |-> c, loc |-> loc, st |-> ps]
      [] line.kind = "noslice" ->
           [c |-> [c EXCEPT !.rows = Append(@, RowOf(line))], loc |-> loc, st |-> "next"]
      [] line.kind = "qblock" ->
           [c |-> [c EXCEPT !.rows = <<>>], loc |-> loc, st |-> "next"]
      [] line.kind = "qschema" ->
           [c |-> [c EXCEPT !.offset = 0, !.lastrowid = NoRowId, !.rows = <<>>,
                            !.description = NoDescription, !.rowcount = -1],
            loc |-> loc, st |-> "next"]
      [] line.kind = "qupdate" ->
           [c |-> [c EXCEPT !.offset = 0, !.rows = <<>>,
                            !.description = NoDescription, !.rowcount = line.n,
                            !.lastrowid = <<line.q>>, !.query_id = -1],
            loc |-> loc, st |-> "next"]
      [] line.kind = "qtrans" ->
           [c |-> [c EXCEPT !.offset = 0, !.lastrowid = NoRowId, !.rows = <<>>,
                            !.description = NoDescription, !.rowcount = -1],
            loc |-> loc, st |-> "next"]
      [] line.kind = "prompt" ->
           [c |-> c, loc |-> loc, st |-> "ok"]
      [] line.kind = "error" ->
           [c |-> ExceptionHandler(c, "ProgrammingError", line.text),
            loc |-> loc, st |-> "ProgrammingError"]
      [] OTHER ->                                   \* no branch matches the line
           [c |-> c, loc |-> loc, st |-> "next"]

\* a decoding loop that takes the end of the block for the end of the response
RECURSIVE StoreLinesLenient(_, _, _, _)
StoreLinesLenient(c, loc, block, i) ==
    IF i > Len(block)
    THEN [c |-> c, st |-> "ok"]
    ELSE Only({ IF r.st = "next" THEN StoreLinesLenient(r.c, r.loc, block, i + 1)
                ELSE [c |-> r.c, st |-> r.st] :
                r \in {StoreLine(c, loc, block[i])} })

RECURSIVE StoreLines(_, _, _, _)
StoreLines(c, loc, block, i) ==
    IF i > Len(block)
    THEN [c |-> ExceptionHandler(c, "InterfaceError", "Unknown state"),
          st |-> "InterfaceError"]
    ELSE Only({ IF r.st = "next" THEN StoreLines(r.c, r.loc, block, i + 1)
                ELSE [c |-> r.c, st |-> r.st] :
                r \in {StoreLine(c, loc, block[i])} })

\* Cursor.__store_result: [c, st], st = "ok" or the exception raised
StoreResult(c, block) ==
    Only({ StoreLines(c0, NoLocals, b, 1) : c0 \in {c}, b \in {block} })

\* ------------------------------------------------- connection and server
\* The connection collaborator: its reply size, the last query id the server
\* has assigned (0: none yet) and the size of that result set.  The cursor
\* only ever holds the last query id, so older result sets are not kept.
NewConnection(replysize) == [replysize |-> replysize, qid |-> 0, rows |-> 0]

\* the column count of result set q: odd sets have one column, even sets two
ColumnsOf(q) == IF q % 2 = 1 THEN 1 ELSE 2

ColumnNames(k) == [j \in 1..k |-> "col"]
ColumnTypes(k) == [j \in 1..k |-> "int"]

\* the tuple lines of rows lo .. hi-1 of result set q
TupleLines(q, lo, hi, k) == [j \in 1..Max(hi - lo, 0) |-> TupleLine(q, lo + j - 1, k)]

\* the response to a SELECT: result set q of r rows opened,
\* the first min(replysize, r) rows inline
ResultSetBlock(q, r, replysize) ==
    LET k == ColumnsOf(q) IN
    <<QTable(q, r, k), HeaderLine("table_name", ColumnNames(k)),
      HeaderLine("name", ColumnNames(k)), HeaderLine("type", ColumnTypes(k))>>
    \o TupleLines(q, 0, Min(replysize, r), k) \o <<Prompt>>

\* a page-fetch request is well formed when it asks for a non-empty range
\* of the open result set
WellFormedExport(conn, q, off, amt) ==
    /\ q >= 1 /\ q = conn.qid
    /\ off >= 0 /\ amt >= 1 /\ off + amt <= conn.rows

\* connection.command('Xexport q off amt'): exactly the requested range for
\* a well-formed request, an empty page for an empty range inside the result
\* set, and an error for anything else
ExportReply(conn, q, off, amt) ==
    IF WellFormedExport(conn, q, off, amt)
    THEN <<QBlock(q)>> \o TupleLines(q, off, off + amt, ColumnsOf(q)) \o <<Prompt>>
    ELSE IF q >= 1 /\ q = conn.qid /\ off >= 0 /\ off <= conn.rows /\ amt <= 0
    THEN <<QBlock(q), Prompt>>
    ELSE <<ErrorLine("server: bad export")>>

ExportCmd(q, off, amt) == [q |-> q, off |-> off, amt |-> amt]

\* ------------------------------------------------------------ the methods
NotExecuted(c) == ~c.executed

\* the window arithmetic shared by nextset and scroll
PageEnd(c) == Min(c.rowcount, c.rownumber + c.arraysize)

\* the tail of nextset and scroll: send the export command for the window
\* that now starts at c.offset, and store the reply
SendExport(c, conn) ==
    LET amount == PageEnd(c) - c.offset
        cmd    == ExportCmd(c.query_id, c.offset, amount)
    IN  IF ~c.connection
        THEN Outcome(c, "AttributeError", RetNothing, <<>>)   \* None.command
        ELSE Only({ Outcome(r.c, r.st, RetNothing, <<cmd>>) :
                    r \in {StoreResult(c, ExportReply(conn, c.query_id, c.offset, amount))} })

\* nextset without `self.__offset += len(self.__rows)`
NextsetNoAdvance(c, conn) ==
    IF NotExecuted(c)
    THEN Raise(c, "ProgrammingError", "do a execute() first", <<>>)
    ELSE IF c.rownumber >= c.rowcount
    THEN Outcome(c, "ok", RetBool(FALSE), <<>>)
    ELSE Only({ IF r.st = "ok" THEN [r EXCEPT !.ret = RetBool(TRUE)] ELSE r :
                r \in {SendExport(c, conn)} })

\* nextset advancing the offset by the page size, not by the rows buffered
NextsetAdvancesByPage(c, conn) ==
    IF NotExecuted(c)
    THEN Raise(c, "ProgrammingError", "do a execute() first", <<>>)
    ELSE IF c.rownumber >= c.rowcount
    THEN Outcome(c, "ok", RetBool(FALSE), <<>>)
    ELSE Only({ IF r.st = "ok" THEN [r EXCEPT !.ret = RetBool(TRUE)] ELSE r :
                r \in { SendExport(c1, conn) :
                         c1 \in {[c EXCEPT !.offset = @ + c.arraysize]} } })

\* Cursor.nextset
Nextset(c, conn) ==
    IF NotExecuted(c)
    THEN Raise(c, "ProgrammingError", "do a execute() first", <<>>)
    ELSE IF c.rownumber >= c.rowcount
    THEN Outcome(c, "ok", RetBool(FALSE), <<>>)
    ELSE Only({ IF r.st = "ok" THEN [r EXCEPT !.ret = RetBool(TRUE)] ELSE r :
                r \in { SendExport(c1, conn) :
                         c1 \in {[c EXCEPT !.offset = @ + Len(c.rows)]} } })

\* fetchone indexing the buffer with rownumber, the offset forgotten
TakeRowNoOffset(c, sent) ==
    IF IndexOk(c.rows, c.rownumber)
    THEN Outcome([c EXCEPT !.rownumber = @ + 1], "ok",
                 RetRow(Index(c.rows, c.rownumber)), sent)
    ELSE Outcome(c, "IndexError", RetNothing, sent)

\* the last three statements of fetchone
TakeRow(c, sent) ==
    IF IndexOk(c.rows, c.rownumber - c.offset)
    THEN Outcome([c EXCEPT !.rownumber = @ + 1], "ok",
                 RetRow(Index(c.rows, c.rownumber - c.offset)), sent)
    ELSE Outcome(c, "IndexError", RetNothing, sent)

\* fetchone without the end-of-result test
FetchoneNoEndCheck(c, conn) ==
    IF NotExecuted(c)
    THEN Raise(c, "ProgrammingError", "do a execute() first", <<>>)
    ELSE IF c.query_id = -1
    THEN Raise(c, "ProgrammingError", "query didn't result in a resultset", <<>>)
    ELSE IF c.rownumber >= c.offset + Len(c.rows)
    THEN Only({ IF r.st = "ok" THEN TakeRow(r.c, r.sent) ELSE r :
                r \in {Nextset(c, conn)} })
    ELSE TakeRow(c, <<>>)

\* Cursor.fetchone
Fetchone(c, conn) ==
    IF NotExecuted(c)
    THEN Raise(c, "ProgrammingError", "do a execute() first", <<>>)
    ELSE IF c.query_id = -1
    THEN Raise(c, "ProgrammingError", "query didn't result in a resultset", <<>>)
    ELSE IF c.rownumber >= c.rowcount
    THEN Outcome(c, "ok", RetNone, <<>>)
    ELSE IF c.rownumber >= c.offset + Len(c.rows)
    THEN Only({ IF r.st = "ok" THEN TakeRow(r.c, r.sent) ELSE r :
                r \in {Nextset(c, conn)} })
    ELSE TakeRow(c, <<>>)

\* a size argument is <<>> (None) or <<n>>; `size or self.arraysize`
NoSize == <<>>
SizeOr(size, arraysize) ==
    IF size = NoSize THEN arraysize
    ELSE IF size[1] = 0 THEN arraysize ELSE size[1]

\* the loop of fetchmany; `fuel` bounds the iterations the model follows
RECURSIVE FetchmanyLoop(_, _, _, _, _, _)
FetchmanyLoop(c, conn, result, end, sent, fuel) ==
    IF ~(end > c.rownumber)
    THEN Outcome(c, "ok", RetRows(result), sent)
    ELSE IF fuel = 0
    THEN Outcome(c, "diverges", RetNothing, sent)
    ELSE Only({
           IF r.st # "ok" THEN [r EXCEPT !.sent = sent \o r.sent]
           ELSE IF r.ret.n = 0 THEN Outcome(r.c, "ok", RetRows(result), sent \o r.sent)
           ELSE Only({ FetchmanyLoop(c2, conn, more, end, sent2, fuel - 1) :
                   c2    \in {[r.c EXCEPT !.rownumber = Min(end, Len(r.c.rows) + r.c.offset)]},
                   more  \in {result \o Slice(r.c.rows, r.c.rownumber - r.c.offset,
                                               end - r.c.offset)},
                   sent2 \in {sent \o r.sent} }) :
           r \in {Nextset(c, conn)} })

LoopFuel == MaxRows + 2

\* Cursor.fetchmany
Fetchmany(c, conn, size) ==
    IF NotExecuted(c)
    THEN Raise(c, "ProgrammingError", "do a execute() first", <<>>)
    ELSE IF c.rownumber >= c.rowcount
    THEN Outcome(c, "ok", RetRows(<<>>), <<>>)
    ELSE Only({ FetchmanyLoop(
                    [c EXCEPT !.rownumber = Min(end, Len(c.rows) + c.offset)], conn,
                    Slice(c.rows, c.rownumber - c.offset, end - c.offset),
                    end, <<>>, LoopFuel) :
                end \in {Min(c.rownumber + SizeOr(size, c.arraysize), c.rowcount)} })

\* the loop of fetchall
RECURSIVE FetchallLoop(_, _, _, _, _)
FetchallLoop(c, conn, result, sent, fuel) ==
    IF fuel = 0
    THEN Outcome(c, "diverges", RetNothing, sent)
    ELSE Only({
           IF r.st # "ok" THEN [r EXCEPT !.sent = sent \o r.sent]
           ELSE IF r.ret.n = 0 THEN Outcome(r.c, "ok", RetRows(result), sent \o r.sent)
           ELSE Only({ FetchallLoop(c2, conn, more, sent2, fuel - 1) :
                   c2    \in {[r.c EXCEPT !.rownumber = Len(r.c.rows) + r.c.offset]},
                   more  \in {result \o r.c.rows},
                   sent2 \in {sent \o r.sent} }) :
           r \in {Nextset(c, conn)} })

\* Cursor.fetchall
Fetchall(c, conn) ==
    IF NotExecuted(c)
    THEN Raise(c, "ProgrammingError", "do a execute() first", <<>>)
    ELSE IF c.query_id = -1
    THEN Raise(c, "ProgrammingError", "query didn't result in a resultset", <<>>)
    ELSE Only({ FetchallLoop(c1, conn, result, <<>>, LoopFuel) :
                result \in {SliceFrom(c.rows, c.rownumber - c.offset)},
                c1     \in {[c EXCEPT !.rownumber = Len(c.rows) + c.offset]} })

\* the scroll target: value itself, or value + rownumber in relative mode
ScrollTarget(c, value, mode) ==
    IF mode = "relative" THEN value + c.rownumber ELSE value

\* scroll without the range check
ScrollNoRangeCheck(c, conn, value, mode) ==
    IF NotExecuted(c)
    THEN Raise(c, "ProgrammingError", "do a execute() first", <<>>)
    ELSE IF mode \notin {"relative", "absolute"}
    THEN Raise(c, "ProgrammingError", "unknown mode", <<>>)
    ELSE Only({ SendExport(c1, conn) :
                c1 \in {[c EXCEPT !.offset = ScrollTarget(c, value, mode)]} })

\* scroll that moves the offset and keeps the buffer, fetching nothing
ScrollKeepsBuffer(c, conn, value, mode) ==
    IF NotExecuted(c)
    THEN Raise(c, "ProgrammingError", "do a execute() first", <<>>)
    ELSE IF mode \notin {"relative", "absolute"}
    THEN Raise(c, "ProgrammingError", "unknown mode", <<>>)
    ELSE IF ScrollTarget(c, value, mode) > c.rowcount
    THEN Raise(c, "IndexError", "value beyond length of resultset", <<>>)
    ELSE Outcome([c EXCEPT !.offset = ScrollTarget(c, value, mode)], "ok",
                 RetNothing, <<>>)

\* Cursor.scroll
Scroll(c, conn, value, mode) ==
    IF NotExecuted(c)
    THEN Raise(c, "ProgrammingError", "do a execute() first", <<>>)
    ELSE IF mode \notin {"relative", "absolute"}
    THEN Raise(c, "ProgrammingError", "unknown mode", <<>>)
    ELSE IF ScrollTarget(c, value, mode) > c.rowcount
    THEN Raise(c, "IndexError", "value beyond length of resultset", <<>>)
    ELSE Only({ SendExport(c1, conn) :
                c1 \in {[c EXCEPT !.offset = ScrollTarget(c, value, mode)]} })

\* Cursor.close
Close(c) == Outcome([c EXCEPT !.connection = FALSE], "ok", RetNone, <<>>)

\* the parameter shapes: "accepted" is None, an empty value, a dict, a list,
\* a tuple or a str; "other" is anything else
ParamShapes == {"accepted", "other"}

\* Cursor.execute; `block` is what connection.execute returns for the query
Execute(c, params, block) ==
    IF ~c.connection
    THEN Raise(c, "ProgrammingError", "cursor is closed", <<>>)
    ELSE LET c1 == [c EXCEPT !.messages = <<>>]
         IN  IF params = "other"
             THEN Raise(c1, "ValueError", "Parameters should be None, dict or list", <<>>)
             ELSE Only({ IF r.st # "ok"
                         THEN Outcome(r.c, r.st, RetNothing, <<"execute">>)
                         ELSE Outcome([r.c EXCEPT !.rownumber = 0, !.executed = TRUE],
                                      "ok", RetCount(r.c.rowcount), <<"execute">>) :
                         r \in {StoreResult(c1, block)} })

\* --------------------------------------------------- statement responses
\* What the server answers to a statement is chosen by a response
\* descriptor d = [kind, r]; select-like kinds open result set
\* conn.qid + 1 with d.r rows.
OpensResultSet(d) == d.kind \in {"select", "noterm", "mismatch"}

Descriptor(kind, r) == [kind |-> kind, r |-> r]

\* the affected-row counts of the updates followed
Affected == {0, MaxRows}

Responses ==
    { Descriptor("select", r) : r \in 0..MaxRows }
    \cup { Descriptor("update", a) : a \in Affected }
    \cup { Descriptor(kind, 0) : kind \in {"schema", "trans", "empty", "error",
                                            "warned", "unknown"} }
    \cup { Descriptor(kind, MaxRows) : kind \in {"noterm", "mismatch"} }

\* the statements followed in an executemany: one with unsupported
\* parameters, or one answered by an update, a result set or an error
ManyStep(params, d) == [params |-> params, d |-> d]

ManySteps ==
    { ManyStep("other", Descriptor("empty", 0)) }
    \cup { ManyStep("accepted", d) :
             d \in { Descriptor("update", MaxRows), Descriptor("select", MaxRows),
                     Descriptor("error", 0) } }

\* The server numbers its result sets consecutively.  The cursor compares a
\* query id only with -1 and hands it back to the server, so the model keeps
\* consecutive ids distinct and lets them alternate between 1 and 2.
NextQid(conn) == IF conn.qid = 1 THEN 2 ELSE 1

\* connection.execute(query): the block for descriptor d
ResponseBlock(conn, d) ==
    CASE d.kind = "select" -> ResultSetBlock(NextQid(conn), d.r, conn.replysize)
      [] d.kind = "update" -> <<QUpdate(d.r, 0), Prompt>>
      [] d.kind = "schema" -> <<QSchema, Prompt>>
      [] d.kind = "trans"  -> <<QTrans, Prompt>>
      [] d.kind = "empty"  -> <<Prompt>>
      [] d.kind = "error"  -> <<InfoLine("i1"), InfoLine("i2"), ErrorLine("server: error"),
                                QUpdate(1, 0), Prompt>>
      [] d.kind = "warned" -> <<InfoLine("i1"), QUpdate(1, 0), Prompt>>
      [] d.kind = "unknown" -> <<OtherLine, QSchema, Prompt>>
      [] d.kind = "noterm" ->
           LET b == ResultSetBlock(NextQid(conn), d.r, conn.replysize)
           IN  SubSeq(b, 1, Len(b) - 1)
      [] d.kind = "mismatch" ->
           LET b == ResultSetBlock(NextQid(conn), d.r, conn.replysize)
           IN  SubSeq(b, 1, Len(b) - 1)
               \o <<TupleLine(NextQid(conn), Min(conn.replysize, d.r),
                            ColumnsOf(NextQid(conn)) + 1), Prompt>>

\* the connection after the statement: the reply size execute has set, and
\* the result set the server has opened
ConnAfter(conn, d) ==
    IF OpensResultSet(d)
    THEN [conn EXCEPT !.qid = NextQid(conn), !.rows = d.r]
    ELSE conn

\* execute's `set_replysize` when arraysize differs from the reply size
SyncReplysize(c, conn) ==
    IF c.connection /\ c.arraysize # conn.replysize
    THEN [conn EXCEPT !.replysize = c.arraysize]
    ELSE conn

\* one execute against the connection: [out, conn]; the statement reaches
\* the server only when execute gets as far as connection.execute
ExecuteOn(c, conn, params, d) ==
    Only({ [out  |-> out,
            conn |-> IF out.sent # <<>> THEN ConnAfter(conn1, d) ELSE conn1] :
           conn1 \in {SyncReplysize(c, conn)},
           out   \in {Execute(c, params, ResponseBlock(SyncReplysize(c, conn), d))} })

\* an executemany with `count = self.execute(...)`: the last count, no sum
RECURSIVE ExecutemanyLoopLastCount(_, _, _, _, _, _)
ExecutemanyLoopLastCount(c, conn, steps, i, count, sent) ==
    IF i > Len(steps)
    THEN [out |-> Outcome([c EXCEPT !.rowcount = count], "ok", RetCount(count), sent),
          conn |-> conn]
    ELSE Only({ IF r.out.st # "ok"
                THEN [out |-> [r.out EXCEPT !.sent = sent \o r.out.sent], conn |-> r.conn]
                ELSE Only({ ExecutemanyLoopLastCount(r.out.c, r.conn, steps, i + 1, count2, sent2) :
                            count2 \in {r.out.ret.n},
                            sent2  \in {sent \o r.out.sent} }) :
                r \in {ExecuteOn(c, conn, steps[i].params, steps[i].d)} })

\* Cursor.executemany over the statements `steps` (parameter set and answer)
RECURSIVE ExecutemanyLoop(_, _, _, _, _, _)
ExecutemanyLoop(c, conn, steps, i, count, sent) ==
    IF i > Len(steps)
    THEN [out |-> Outcome([c EXCEPT !.rowcount = count], "ok", RetCount(count), sent),
          conn |-> conn]
    ELSE Only({ IF r.out.st # "ok"
                THEN [out |-> [r.out EXCEPT !.sent = sent \o r.out.sent], conn |-> r.conn]
                ELSE Only({ ExecutemanyLoop(r.out.c, r.conn, steps, i + 1, count2, sent2) :
                            count2 \in {count + r.out.ret.n},
                            sent2  \in {sent \o r.out.sent} }) :
                r \in {ExecuteOn(c, conn, steps[i].params, steps[i].d)} })

Executemany(c, conn, steps) == ExecutemanyLoop(c, conn, steps, 1, 0, <<>>)

\* --------------------------------------------------------------- the state
VARIABLES
    cursor,   \* the Cursor object
    conn,     \* the connection collaborator and the server behind it
    last,     \* the most recent call: its name, arguments and outcome
    streak    \* fetchone calls made since the last execute that opened a
              \* result set, -1 once any other call has been made

vars == <<cursor, conn, last, streak>>

\* the record of a call: `n` is the count or truth value it returned; the
\* arguments of a scroll are kept when it succeeds; `first` tells that the
\* call before it was an execute that opened a result set
Call(op, value, mode, out) ==
    [op |-> op, st |-> out.st, n |-> out.ret.n,
     value |-> IF op = "scroll" /\ out.st # "ok" THEN 0 ELSE value,
     mode  |-> IF op = "scroll" /\ out.st # "ok" THEN "" ELSE mode,
     first |-> streak = 0]

Init ==
    /\ \E p \in PageSizes : /\ conn = NewConnection(p)
                            /\ cursor = NewCursor(p)
    /\ last = [op |-> "init", st |-> "ok", n |-> 0, value |-> 0, mode |-> "", first |-> FALSE]
    /\ streak = -1

\* Which runs are followed.  Every failing call appends to the log and every
\* call on a closed cursor can shift the window, without bound; so
\*  - after close() one more call is followed;
\*  - a run ends with the first usage error or server error that is logged
\*    (decode errors and warnings do not end it);
\*  - offset and rownumber are followed within one row of the result set.
Positions == (-1)..(MaxRows + 1)

Quiet(c) ==
    \A i \in 1..Len(c.messages) : c.messages[i][1] \in {"Warning", "InterfaceError"}

CallFollowed == Quiet(cursor) /\ (cursor.connection \/ last.op = "close")

FetchFollowed(out) ==
    /\ CallFollowed
    /\ out.c.offset \in Positions
    /\ out.c.rownumber \in Positions

\* the responses followed for a statement with the given parameters: one
\* with unsupported parameters never reaches the server
ResponsesFor(params) ==
    IF params = "other" THEN {Descriptor("empty", 0)} ELSE Responses

ExecuteAction ==
    \E params \in ParamShapes :
      \E d \in ResponsesFor(params) :
        /\ CallFollowed
        /\ \E r \in {ExecuteOn(cursor, conn, params, d)} :
               /\ cursor' = r.out.c
               /\ conn' = r.conn
               /\ last' = Call("execute", 0, IF r.out.sent # <<>> THEN d.kind ELSE "", r.out)
               /\ streak' = IF r.out.st = "ok" /\ d.kind = "select" THEN 0 ELSE -1

ExecutemanyAction ==
    \E n \in 0..MaxMany :
      \E steps \in [1..n -> ManySteps] :
        \E r \in {Executemany(cursor, conn, steps)} :
            /\ CallFollowed
            /\ cursor' = r.out.c
            /\ conn' = r.conn
            /\ last' = Call("executemany", n, "", r.out)
            /\ streak' = -1

FetchoneAction ==
    \E out \in {Fetchone(cursor, conn)} :
        /\ FetchFollowed(out)
        /\ cursor' = out.c
        /\ last' = Call("fetchone", 0, "", out)
        /\ streak' = IF streak >= 0 THEN Min(streak + 1, MaxRows + 1) ELSE -1
        /\ UNCHANGED conn

SizeArgs == {NoSize} \cup { <<n>> : n \in 0..(MaxRows + 1) }

FetchmanyAction ==
    \E size \in SizeArgs :
        \E out \in {Fetchmany(cursor, conn, size)} :
            /\ FetchFollowed(out)
            /\ cursor' = out.c
            /\ last' = Call("fetchmany", 0, "", out)
            /\ streak' = -1
            /\ UNCHANGED conn

FetchallAction ==
    \E out \in {Fetchall(cursor, conn)} :
        /\ FetchFollowed(out)
        /\ cursor' = out.c
        /\ last' = Call("fetchall", 0, "", out)
        /\ streak' = -1
        /\ UNCHANGED conn

NextsetAction ==
    \E out \in {Nextset(cursor, conn)} :
        /\ FetchFollowed(out)
        /\ cursor' = out.c
        /\ last' = Call("nextset", 0, "", out)
        /\ streak' = -1
        /\ UNCHANGED conn

ScrollValues == (-1)..(MaxRows + 1)
ScrollModes == {"relative", "absolute", "other"}

ScrollAction ==
    \E value \in ScrollValues, mode \in ScrollModes :
        \E out \in {Scroll(cursor, conn, value, mode)} :
            /\ FetchFollowed(out)
            /\ cursor' = out.c
            /\ last' = Call("scroll", value, mode, out)
            /\ streak' = -1
            /\ UNCHANGED conn

CloseAction ==
    /\ CallFollowed
    /\ cursor.connection
    /\ cursor' = Close(cursor).c
    /\ last' = Call("close", 0, "", Close(cursor))
    /\ streak' = -1
    /\ UNCHANGED conn

Next ==
    \/ ExecuteAction
    \/ ExecutemanyAction
    \/ FetchoneAction
    \/ FetchmanyAction
    \/ FetchallAction
    \/ NextsetAction
    \/ ScrollAction
    \/ CloseAction

Spec == Init /\ [][Next]_vars

\* ------------------------------------------------ the decoder on any block
\* A second specification hands execute any block of a family of response
\* blocks, well formed or not: an opening, some tuple lines, a closing.
DecodeOpenings ==
    { <<>>, <<InfoLine("i1")>>, <<OtherLine>>, <<QBlock(1)>>,
      <<QTable(1, MaxRows, 1)>>,
      <<QTable(1, MaxRows, 1), HeaderLine("name", ColumnNames(1)),
        HeaderLine("type", ColumnTypes(1))>>,
      <<QTable(2, MaxRows, 2), HeaderLine("name", ColumnNames(2)),
        HeaderLine("type", ColumnTypes(2))>>,
      <<HeaderLine("name", ColumnNames(1))>>,
      <<QUpdate(1, 0)>>, <<QSchema>>, <<QTrans>> }

\* tuple lines of one field or of two
DecodeTuples ==
    UNION { [1..n -> {TupleLine(1, 0, 1), TupleLine(1, 1, 2)}] : n \in 0..MaxPage }

DecodeClosings ==
    { <<>>, <<Prompt>>, <<ErrorLine("e1")>>, <<OtherLine>>, <<OtherLine, Prompt>>,
      <<InfoLine("i2")>>, <<Prompt, TupleLine(1, 2, 1)>> }

DecodeBlocks ==
    { o \o t \o cl : o \in DecodeOpenings, t \in DecodeTuples, cl \in DecodeClosings }

\* execute with the connection returning `block`; runs in which the buffer
\* outgrows the largest result set are not followed
ExecuteBlockAction ==
    \E block \in DecodeBlocks :
      \E out \in {Execute(cursor, "accepted", block)} :
        /\ Len(out.c.rows) <= MaxRows
        /\ cursor' = out.c
        /\ last' = Call("execute", 0, "block", out)
        /\ streak' = -1
        /\ UNCHANGED conn

NextDecode == ExecuteBlockAction

SpecDecode == Init /\ [][NextDecode]_vars

\* ------------------------------------------- statements and fetches only
\* A third specification keeps the cursor open and calls only execute, the
\* fetch methods, nextset and scroll.
NextWindow ==
    \/ ExecuteAction
    \/ FetchoneAction
    \/ FetchmanyAction
    \/ FetchallAction
    \/ NextsetAction
    \/ ScrollAction

SpecWindow == Init /\ [][NextWindow]_vars

\* ------------------------------------------------------ statements only
\* A fourth specification calls only execute, executemany and close.
NextStatements ==
    \/ ExecuteAction
    \/ ExecutemanyAction
    \/ CloseAction

SpecStatements == Init /\ [][NextStatements]_vars

\* ---------------------------------------------------- fetch calls only
\* A fifth specification calls only execute and the three fetch methods:
\* the window moves only as the fetch methods move it.
NextFetch ==
    \/ ExecuteAction
    \/ FetchoneAction
    \/ FetchmanyAction
    \/ FetchallAction

SpecFetch == Init /\ [][NextFetch]_vars

\* ---------------------------------------------------------------- claims
\* the cursor holds the result set the server opened last, and is open
ResultSetOpen ==
    /\ cursor.connection /\ cursor.executed
    /\ cursor.query_id >= 1 /\ cursor.query_id = conn.qid
    /\ cursor.rowcount = conn.rows

\* rows lo .. hi-1 of the current result set
RowsOf(lo, hi) == [j \in 1..Max(hi - lo, 0) |-> <<cursor.query_id, lo + j - 1>>]

\* the window fields a call may leave or change
Window(c) == <<c.offset, c.rows, c.rownumber, c.rowcount, c.query_id, c.description>>

\* C1: after an execute that opened a result set of R rows, the i-th of R
\* consecutive fetchone calls succeeds and returns the row with logical
\* index i-1, whatever the page size: after i such calls the position is i,
\* and the next call returns row i with at most one page fetch.
C1_FetchoneInOrder ==
    streak >= 0 =>
      /\ (streak >= 1 /\ streak <= cursor.rowcount) =>
            /\ last.op = "fetchone" /\ last.st = "ok"
            /\ cursor.rownumber = streak
      /\ streak < cursor.rowcount =>
            LET out == Fetchone(cursor, conn)
            IN  /\ out.st = "ok"
                /\ out.ret = RetRow(<<conn.qid, streak>>)
                /\ Len(out.sent) <= 1

\* all rows of a result set larger than a page fetched one by one
C1_Witness ==
    /\ streak = MaxRows /\ cursor.rowcount = MaxRows
    /\ cursor.arraysize < MaxRows /\ cursor.offset > 0
    /\ last.op = "fetchone" /\ last.st = "ok"

\* C2: after scroll(k, 'absolute') with 0 <= k < R has succeeded, fetchone
\* returns the row with logical index k.
C2_ScrollAbsoluteThenFetchone ==
    ( /\ ResultSetOpen
      /\ last.op = "scroll" /\ last.st = "ok" /\ last.mode = "absolute"
      /\ last.value >= 0 /\ last.value < cursor.rowcount )
    => LET out == Fetchone(cursor, conn)
       IN  out.st = "ok" /\ out.ret = RetRow(<<cursor.query_id, last.value>>)

\* what the response of the last execute leaves in a newly constructed cursor
FreshlyStored ==
    LET block == IF last.mode = "select"
                 THEN ResultSetBlock(conn.qid, conn.rows, conn.replysize)
                 ELSE ResponseBlock(conn, Descriptor(last.mode, cursor.rowcount))
    IN  StoreResult(NewCursor(cursor.arraysize), block).c

\* C3: after execute has returned, row position, row count, description and
\* window (offset, rows, query id) are those of the new statement alone: they
\* equal what its response leaves in a newly constructed cursor.
C3_ExecuteResets ==
    (last.op = "execute" /\ last.st = "ok")
    => /\ cursor.rownumber = 0
       /\ cursor.rowcount = FreshlyStored.rowcount
       /\ cursor.description = FreshlyStored.description
       /\ cursor.offset = FreshlyStored.offset
       /\ cursor.rows = FreshlyStored.rows
       /\ cursor.query_id = FreshlyStored.query_id

NonTabular == {"update", "schema", "trans"}

\* C4: when the last statement executed produced no tabular result,
\* fetchone raises the "not a result set" usage error.
C4_FetchoneNotAResultSet ==
    (cursor.connection /\ last.op = "execute" /\ last.st = "ok" /\ last.mode \in NonTabular)
    => LET out == Fetchone(cursor, conn)
       IN  /\ out.st = "ProgrammingError"
           /\ out.c.messages = Append(cursor.messages,
                 <<"ProgrammingError", "query didn't result in a resultset">>)

\* C5: every call made after close() fails.
C5_ClosedCallsFail ==
    (~cursor.connection /\ last.op # "close") => last.st # "ok"

\* C6: with k rows consumed of a result set of R, fetchmany(n), n >= 0,
\* returns rows k .. k+min(n, R-k)-1 and advances rownumber by min(n, R-k).
C6_FetchmanyExact ==
    (ResultSetOpen /\ streak >= 0)
    => \A n \in 0..(MaxRows + 1) :
         LET k   == cursor.rownumber
             m   == Min(n, cursor.rowcount - k)
             out == Fetchmany(cursor, conn, <<n>>)
         IN  /\ out.st = "ok"
             /\ out.ret = RetRows(RowsOf(k, k + m))
             /\ out.c.rownumber = k + m

\* the state right after an execute whose response opened a result set of R
\* rows with the first P inline, P the page size, P dividing R
FirstPageOfMany ==
    /\ ResultSetOpen
    /\ last.op = "execute" /\ last.st = "ok" /\ last.mode = "select"
    /\ Len(cursor.rows) = cursor.arraysize
    /\ cursor.rowcount % cursor.arraysize = 0

\* C7 as claimed: fetchall then issues exactly R/P page fetches and returns
\* all R rows in order.
C7_FetchallPageFetches ==
    FirstPageOfMany
    => LET out == Fetchall(cursor, conn)
       IN  /\ out.st = "ok"
           /\ out.ret = RetRows(RowsOf(0, cursor.rowcount))
           /\ Len(out.sent) = cursor.rowcount \div cursor.arraysize

\* C7 amended: fetchall issues exactly R/P - 1 page fetches, one for each
\* page after the inline one, page j asking for rows j*P .. j*P+P-1, and
\* returns all R rows in order.
C7_FetchallPageFetchesAmended ==
    FirstPageOfMany
    => LET out == Fetchall(cursor, conn)
           P   == cursor.arraysize
       IN  /\ out.st = "ok"
           /\ out.ret = RetRows(RowsOf(0, cursor.rowcount))
           /\ Len(out.sent) = (cursor.rowcount \div P) - 1
           /\ \A j \in 1..Len(out.sent) :
                 out.sent[j] = ExportCmd(cursor.query_id, j * P, P)
           /\ out.c.rownumber = cursor.rowcount

\* fetchall has paged through a result set of several full pages, called
\* right after the execute
C7_Witness ==
    /\ last.op = "fetchall" /\ last.st = "ok" /\ last.first
    /\ cursor.rowcount > cursor.arraysize
    /\ cursor.rowcount % cursor.arraysize = 0
    /\ cursor.rownumber = cursor.rowcount
    /\ cursor.offset = cursor.rowcount - cursor.arraysize

\* C8: after nextset has returned a true value, fetchone returns the first
\* row of the page just fetched, the row at the new window offset.
C8_NextsetThenFetchone ==
    (ResultSetOpen /\ last.op = "nextset" /\ last.st = "ok" /\ last.n = 1)
    => LET out == Fetchone(cursor, conn)
       IN  out.st = "ok" /\ out.ret = RetRow(<<cursor.query_id, cursor.offset>>)

\* C9: when the last execute produced no result set, fetchmany raises an
\* error, which is logged, returns no rows and sends nothing.
C9_FetchmanyNotAResultSet ==
    (cursor.connection /\ last.op = "execute" /\ last.st = "ok" /\ last.mode \in NonTabular)
    => \A size \in SizeArgs :
         LET out == Fetchmany(cursor, conn, size)
         IN  /\ out.st \notin {"ok", "diverges"}
             /\ Len(out.c.messages) = Len(cursor.messages) + 1
             /\ out.ret.rows = <<>>
             /\ out.sent = <<>>

\* C10: on a cursor that has executed a statement, a scroll whose target
\* (value, or rownumber + value in relative mode) exceeds the row count
\* raises IndexError, which is logged, sends nothing and leaves offset,
\* buffered rows, rownumber, row count, query id and description as they were.
C10_ScrollOutOfRange ==
    cursor.executed =>
        \A value \in ScrollValues, mode \in {"relative", "absolute"} :
            ScrollTarget(cursor, value, mode) > cursor.rowcount
            => LET out == Scroll(cursor, conn, value, mode)
               IN  /\ out.st = "IndexError"
                   /\ out.sent = <<>>
                   /\ Window(out.c) = Window(cursor)
                   /\ out.c.messages = Append(cursor.messages,
                         <<"IndexError", "value beyond length of resultset">>)

\* a scroll beyond a result set has been refused
C10_Witness ==
    /\ last.op = "scroll" /\ last.st = "IndexError"
    /\ cursor.executed /\ cursor.query_id >= 1 /\ cursor.rowcount >= 1
    /\ cursor.messages[Len(cursor.messages)] =
          <<"IndexError", "value beyond length of resultset">>

\* C11: once rownumber has reached the row count of the current result
\* set, fetchone returns None, raises nothing, sends nothing and leaves the
\* cursor as it is, so that every repetition does the same.
C11_FetchoneAtEnd ==
    (cursor.executed /\ cursor.query_id # -1 /\ cursor.rownumber >= cursor.rowcount)
    => Fetchone(cursor, conn) = Outcome(cursor, "ok", RetNone, <<>>)

\* a result set has been read to its end with fetchone, and fetchone called
\* once more
C11_Witness ==
    /\ cursor.rowcount >= 1 /\ cursor.rownumber = cursor.rowcount
    /\ streak = cursor.rowcount + 1
    /\ last.op = "fetchone" /\ last.st = "ok"

\* the same cursor with an empty message log
EmptyLog(c) == [c EXCEPT !.messages = <<>>]

\* C12: execute and executemany empty the message log first: the log they
\* leave, on return or on raising, is the one they would leave had the log
\* been empty before the call, for every statement and parameter sequence.
C12_LogClearedFirst ==
    /\ \A params \in ParamShapes : \A d \in ResponsesFor(params) :
          ExecuteOn(cursor, conn, params, d).out.c.messages
            = ExecuteOn(EmptyLog(cursor), conn, params, d).out.c.messages
    /\ \A n \in 0..MaxMany : \A steps \in [1..n -> ManySteps] :
          Executemany(cursor, conn, steps).out.c.messages
            = Executemany(EmptyLog(cursor), conn, steps).out.c.messages

\* C13: with a result set open and p = rownumber < R, scroll(0, 'relative')
\* succeeds and the fetchone after it returns the row with logical index p,
\* the row fetchone would have returned without the scroll; it fetches no
\* further page.
C13_ScrollZeroRelative ==
    (ResultSetOpen /\ cursor.rownumber >= 0 /\ cursor.rownumber < cursor.rowcount)
    => /\ \E s \in {Scroll(cursor, conn, 0, "relative")} :
            /\ s.st = "ok"
            /\ Len(s.sent) = 1
            /\ s.c.rownumber = cursor.rownumber
            /\ \E out \in {Fetchone(s.c, conn)} :
                  /\ out.st = "ok"
                  /\ out.ret = RetRow(<<cursor.query_id, cursor.rownumber>>)
                  /\ out.sent = <<>>
       /\ (last.op = "scroll" /\ last.st = "ok" /\ last.mode = "relative" /\ last.value = 0)
          => Fetchone(cursor, conn).ret = RetRow(<<cursor.query_id, cursor.rownumber>>)

\* scroll(0, 'relative') has been done in the middle of a result set, at a
\* position other than the start of the buffered page
C13_Witness ==
    /\ ResultSetOpen
    /\ last.op = "scroll" /\ last.st = "ok" /\ last.mode = "relative" /\ last.value = 0
    /\ cursor.rownumber >= 1 /\ cursor.rownumber < cursor.rowcount
    /\ cursor.offset = cursor.rownumber

\* the log after a response of two informational lines and an error line
ErrorLog ==
    << <<"Warning", "i1">>, <<"Warning", "i2">>,
       <<"ProgrammingError", "server: error">> >>

\* C14: execute on a response of two informational lines, an error line and
\* further lines raises ProgrammingError with the server's text; the log then
\* holds the two informational entries and the error entry, in that order,
\* and nothing else of the cursor has changed: the lines after the error
\* line have no effect.
C14_ErrorAfterInfo ==
    /\ cursor.connection
       => \E r \in {ExecuteOn(cursor, conn, "accepted", Descriptor("error", 0)).out} :
             /\ r.st = "ProgrammingError"
             /\ r.ret = RetNothing
             /\ r.c = [cursor EXCEPT !.messages = ErrorLog]
    /\ (last.op = "execute" /\ last.mode = "error")
       => last.st = "ProgrammingError" /\ cursor.messages = ErrorLog

\* such a response has been received by a cursor holding a result set
C14_Witness ==
    /\ last.op = "execute" /\ last.mode = "error" /\ last.st = "ProgrammingError"
    /\ Len(cursor.messages) = 3
    /\ cursor.query_id >= 1 /\ cursor.rowcount = MaxRows

\* a block without end-of-response line and without error line
Unterminated(block) ==
    \A i \in 1..Len(block) : block[i].kind \notin {"prompt", "error"}

UnknownState == <<"InterfaceError", "Unknown state">>

\* C15: a block holding neither an end-of-response line nor an error line is
\* never accepted: execute raises and does not count as executed.  When
\* every line of it decodes (the block would be accepted with the terminator
\* added), the error is InterfaceError "Unknown state", logged after the
\* entries of the block's lines.
C15_UnterminatedBlock ==
    \A block \in DecodeBlocks :
      Unterminated(block)
      => \E out \in {Execute(cursor, "accepted", block)},
            full \in {Execute(cursor, "accepted", block \o <<Prompt>>)} :
           /\ out.st # "ok"
           /\ out.ret = RetNothing
           /\ out.c.executed = cursor.executed
           /\ out.c.rownumber = cursor.rownumber
           /\ full.st = "ok"
              => /\ out.st = "InterfaceError"
                 /\ out.c.messages = Append(full.c.messages, UnknownState)

\* a result-set opening with its tuples and no terminator has been refused
C15_Witness ==
    /\ last.op = "execute" /\ last.mode = "block" /\ last.st = "InterfaceError"
    /\ cursor.messages = <<UnknownState>>
    /\ ~cursor.description.none /\ Len(cursor.rows) >= 1
    /\ cursor.rowcount = MaxRows

Mismatch == <<"InterfaceError", "length of row doesn't match header">>

\* C16: when the lines before a tuple line decode and leave a description,
\* and the tuple's field count differs from the description's column count,
\* decoding of the block stops there with InterfaceError "length of row
\* doesn't match header": the tuple is not appended, the error is logged, and
\* the lines after it have no effect.
C16_TupleArity ==
    \A block \in DecodeBlocks : \A i \in 1..Len(block) :
      \E pre \in {StoreResult(cursor, SubSeq(block, 1, i - 1) \o <<Prompt>>)} :
        ( /\ Unterminated(SubSeq(block, 1, i - 1))
          /\ pre.st = "ok"
          /\ block[i].kind = "tuple"
          /\ ~pre.c.description.none
          /\ block[i].cols # Len(pre.c.description.cols) )
        => /\ StoreResult(cursor, block)
                = [c |-> ExceptionHandler(pre.c, Mismatch[1], Mismatch[2]),
                   st |-> "InterfaceError"]
           /\ Execute(cursor, "accepted", block).st = "InterfaceError"

\* a block has been refused at a tuple of the wrong arity, after a tuple of
\* the right one
C16_Witness ==
    /\ last.op = "execute" /\ last.mode = "block" /\ last.st = "InterfaceError"
    /\ cursor.messages = <<Mismatch>>
    /\ ~cursor.description.none /\ Len(cursor.rows) >= 1

\* the outcomes of the calls that can fetch a page, in the current state
PagingOutcomes ==
    {Fetchone(cursor, conn), Fetchall(cursor, conn), Nextset(cursor, conn)}
    \cup { Fetchmany(cursor, conn, size) : size \in SizeArgs }
    \cup { Scroll(cursor, conn, value, mode) : value \in ScrollValues, mode \in ScrollModes }

\* C17: no call sends a page-fetch command carrying the query id -1.
C17_NoExportWithoutQueryId ==
    \A out \in PagingOutcomes :
        \A i \in 1..Len(out.sent) : out.sent[i].q # -1

\* the outcomes of the fetch calls in the current state
FetchOutcomes ==
    {Fetchone(cursor, conn), Fetchall(cursor, conn)}
    \cup { Fetchmany(cursor, conn, size) : size \in SizeArgs }

\* C18: after an execute whose block failed to decode (a tuple of the wrong
\* arity, or no terminator), no fetch call returns a row of that block's
\* result set.
C18_NoPartialResult ==
    (last.op = "execute" /\ last.st = "InterfaceError" /\ last.mode \in {"noterm", "mismatch"})
    => \A out \in FetchOutcomes :
          \A i \in 1..Len(out.ret.rows) : out.ret.rows[i][1] # conn.qid

\* C19: a block with a line of no recognised kind, and no end-of-response or
\* error line before it, is not accepted: execute raises, whatever lines
\* follow.
C19_UnknownLineRefused ==
    \A block \in DecodeBlocks : \A i \in 1..Len(block) :
      (block[i].kind = "other" /\ Unterminated(SubSeq(block, 1, i - 1)))
      => Execute(cursor, "accepted", block).st # "ok"

\* C20: with a result set open, a scroll to a target t, 0 <= t <= row count,
\* sends exactly one page-fetch command, for offset t and
\* min(page size, row count - t) rows, and the buffer is then that page.
C20_ScrollFetchesPage ==
    ResultSetOpen
    => \A value \in ScrollValues, mode \in {"relative", "absolute"} :
         \E t \in {ScrollTarget(cursor, value, mode)},
            out \in {Scroll(cursor, conn, value, mode)} :
           (t >= 0 /\ t <= cursor.rowcount)
           => \E amount \in {Min(cursor.arraysize, cursor.rowcount - t)} :
                /\ out.st = "ok"
                /\ out.sent = <<ExportCmd(cursor.query_id, t, amount)>>
                /\ out.c.offset = t
                /\ out.c.rows = RowsOf(t, t + amount)

\* C21 as claimed: once a statement has been executed, whatever its response,
\* offset <= row count.
C21_OffsetWithinRows ==
    cursor.executed => cursor.offset <= cursor.rowcount

\* C21 amended: after any sequence of execute, fetchone, fetchmany, fetchall,
\* nextset and scroll, offset <= row count whenever there is a row
\* count; with none (row count -1: before the first execute, after a schema
\* change or a transaction boundary) the offset is at most 0.
C21_OffsetWithinRowsAmended ==
    /\ cursor.rowcount >= -1
    /\ cursor.rowcount >= 0 => cursor.offset <= cursor.rowcount
    /\ cursor.rowcount = -1 => cursor.offset <= 0

\* paging has moved the window to the very end of a result set
C21_Witness ==
    /\ ResultSetOpen
    /\ last.op = "nextset" /\ last.st = "ok"
    /\ cursor.rowcount >= 1 /\ cursor.offset = cursor.rowcount


\* C22: a nextset call that fetched a page (sent an export command) whose
\* reply delivered no rows returns a false value.
C22_NextsetFalseOnEmptyPage ==
    \A out \in {Nextset(cursor, conn)} :
        (ResultSetOpen /\ out.st = "ok" /\ Len(out.sent) = 1
            /\ out.c.rows = <<>>)
        => out.ret = RetBool(FALSE)


\* the outcomes of the two multi-row fetch calls in the current state
LoopOutcomes ==
    {Fetchall(cursor, conn)} \cup { Fetchmany(cursor, conn, size) : size \in SizeArgs }

\* every page fetch of the call was answered with at least one row
EveryPageDelivers(out) ==
    \A i \in 1..Len(out.sent) :
        WellFormedExport(conn, out.sent[i].q, out.sent[i].off, out.sent[i].amt)

\* C23: with a result set of R rows open, a fetchmany or fetchall call whose
\* page fetches all deliver at least one row returns, after at most
\* R - rownumber page fetches, and leaves rownumber <= R.
C23_FetchLoopsTerminate ==
    ResultSetOpen
    => \A out \in LoopOutcomes :
          EveryPageDelivers(out)
          => /\ out.st = "ok"
             /\ Len(out.sent) <= Max(cursor.rowcount - cursor.rownumber, 0)
             /\ out.c.rownumber <= cursor.rowcount


\* the individual execute calls of an executemany over `steps`, from the
\* i-th on, each on the cursor and connection the one before it left; the
\* chain ends with the first call that raises
RECURSIVE ExecuteEach(_, _, _, _)
ExecuteEach(c, cn, steps, i) ==
    IF i > Len(steps)
    THEN <<>>
    ELSE Only({ IF r.out.st = "ok"
                THEN <<r>> \o ExecuteEach(r.out.c, r.conn, steps, i + 1)
                ELSE <<r>> :
                r \in {ExecuteOn(c, cn, steps[i].params, steps[i].d)} })

\* the sum of the counts the calls returned
RECURSIVE SumOfCounts(_)
SumOfCounts(runs) ==
    IF runs = <<>> THEN 0
    ELSE runs[1].out.ret.n + SumOfCounts(Tail(runs))

\* C24: an executemany over k parameter sets whose execute calls all return
\* makes exactly k statement round trips, in sequence order (it leaves the
\* connection and the cursor as the k-th execute of the chain left them),
\* and its return value and rowcount both equal the sum of the k counts.
C24_ExecutemanySums ==
    \A k \in 0..MaxMany : \A steps \in [1..k -> ManySteps] :
      \E runs \in {ExecuteEach(cursor, conn, steps, 1)} :
        \E r \in {Executemany(cursor, conn, steps)} :
          (Len(runs) = k /\ \A i \in 1..k : runs[i].out.st = "ok")
          => /\ r.out.st = "ok"
             /\ r.out.sent = [i \in 1..k |-> "execute"]
             /\ r.out.ret = RetCount(SumOfCounts(runs))
             /\ r.out.c.rowcount = SumOfCounts(runs)
             /\ r.conn = IF k = 0 THEN conn ELSE runs[k].conn
             /\ k >= 1 => [r.out.c EXCEPT !.rowcount = 0]
                            = [runs[k].out.c EXCEPT !.rowcount = 0]

\* an executemany over two parameter sets has returned the sum of two
\* non-zero counts
C24_Witness ==
    /\ last.op = "executemany" /\ last.st = "ok"
    /\ last.value = 2 /\ last.n = 2 * MaxRows
    /\ cursor.rowcount = 2 * MaxRows
    /\ cursor.connection


\* the requests of one call are made at the row number the call has reached:
\* the first at `at`, each later one where the page before it ended, and
\* each asks for 1 .. page size rows
PagedFrom(out, at) ==
    /\ \A i \in 1..Len(out.sent) :
          out.sent[i].amt >= 1 /\ out.sent[i].amt <= cursor.arraysize
    /\ out.sent # <<>> => out.sent[1].off = at
    /\ \A i \in 1..(Len(out.sent) - 1) :
          out.sent[i + 1].off = out.sent[i].off + out.sent[i].amt

\* C25: with a result set open, and only execute and the fetch methods
\* called, offset <= rownumber <= offset + len(rows) between calls, and every
\* page fetch a fetch method issues is requested at offset = rownumber (the
\* row number when it is issued) for 1 .. page size rows.
C25_WindowPosition ==
    ResultSetOpen
    => /\ cursor.offset <= cursor.rownumber
       /\ cursor.rownumber <= cursor.offset + Len(cursor.rows)
       /\ PagedFrom(Fetchone(cursor, conn), cursor.rownumber)
       /\ PagedFrom(Fetchall(cursor, conn), cursor.offset + Len(cursor.rows))
       /\ \A size \in SizeArgs :
             PagedFrom(Fetchmany(cursor, conn, size), cursor.offset + Len(cursor.rows))

====
